---- MODULE Spec2Model ----
(***************************************************************************)
(* Model of quantum_decomp: two_level_decompose, two_level_decompose_gray, *)
(* matrix_to_gates (quantum_decomp_main.py) and the Gate classes (gate.py).*)
(*                                                                         *)
(* Numbers.  Matrix entries are real fixed-point numbers in units of 1e-9  *)
(* (One = 1.0, Tol = 1e-9).  Every input the model draws has real entries, *)
(* so a complex phase exp(i*angle(x)) is the sign of x and conjugation is  *)
(* the identity.                                                           *)
(***************************************************************************)
EXTENDS Integers, Naturals, Sequences, FiniteSets, TLC

VARIABLES
    pc,         \* the function (or the place in it) control is at; "done" after return/raise
    call,       \* the call being served: function name and arguments
    arg,        \* two_level_decompose's parameter A
    current_A,  \* two_level_decompose's working copy
    i, j,       \* two_level_decompose's loop indices
    result,     \* the list of TwoLevelUnitary being built / returned
    inner,      \* what two_level_decompose returned to two_level_decompose_gray
    gates,      \* matrix_to_gates' gate list
    ret         \* how the call ended: error raised (or "none") and the value returned

vars == <<pc, call, arg, current_A, i, j, result, inner, gates, ret>>

-----------------------------------------------------------------------------
(* Bounds of the model *)

\* Signed permutation matrices are enumerated for every dimension 2..MaxN.
MaxN == 4
\* Gates are enumerated for every qubit count 1..MaxQubits.
MaxQubits == 3

-----------------------------------------------------------------------------
(* Fixed-point numbers *)

\* 1.0 in units of 1e-9.
One == 1000000000
\* The tolerance 1e-9 of the comparisons in two_level_decompose.
Tol == 1
\* 0.2: the inputs with fractional entries have entries 3/5 and 4/5.
Grid == One \div 5

Abs(x) == IF x < 0 THEN -x ELSE x
Sgn(x) == IF x < 0 THEN -1 ELSE IF x > 0 THEN 1 ELSE 0

\* x = GridPart(x) * Grid + TinyPart(x); TinyPart is of tolerance size in every
\* number the model computes with.
GridPart(x) == Sgn(x) * (Abs(x) \div Grid)
TinyPart(x) == x - (GridPart(x) * Grid)

\* The product x*y (as 64-bit floats compute it: a term of size 1e-18 is lost).
Mul(x, y) ==
    (GridPart(x) * GridPart(y) * (Grid \div 5))
      + (((GridPart(x) * TinyPart(y)) + (TinyPart(x) * GridPart(y))) \div 5)

\* The quotient x / c for x >= 0 and c > 0 on the grid.
FDiv(x, c) == GridPart(x) * (One \div GridPart(c))

\* sqrt(a^2 + b^2), for the a, b whose root lies on the grid.
Hypot(a, b) ==
    CHOOSE c \in {k * Grid : k \in 0..7} : Mul(c, c) = Mul(a, a) + Mul(b, b)

RECURSIVE SumTo(_, _)
\* f[0] + ... + f[n-1]
SumTo(f, n) == IF n = 0 THEN 0 ELSE f[n - 1] + SumTo(f, n - 1)

RECURSIVE Xor(_, _)
\* Python's a ^ b on non-negative integers.
Xor(a, b) ==
    IF a = 0 /\ b = 0 THEN 0
    ELSE (((a % 2) + (b % 2)) % 2) + 2 * Xor(a \div 2, b \div 2)

\* Bit k of x.
Bit(x, k) == (x \div (2 ^ k)) % 2

-----------------------------------------------------------------------------
(* Matrices: M[r][c], indices from 0 as in numpy *)

NoMatrix == << >>
NRows(M) == Cardinality(DOMAIN M)
NCols(M) == IF NRows(M) = 0 THEN 0 ELSE Cardinality(DOMAIN M[0])

Eye(n) == [r \in 0..n-1 |-> [c \in 0..n-1 |-> IF r = c THEN One ELSE 0]]
Transpose(M) == [r \in 0..NCols(M)-1 |-> [c \in 0..NRows(M)-1 |-> M[c][r]]]
\* numpy's X @ Y
MatMul(X, Y) ==
    [r \in 0..NRows(X)-1 |-> [c \in 0..NCols(Y)-1 |->
        SumTo([k \in 0..NCols(X)-1 |-> Mul(X[r][k], Y[k][c])], NCols(X))]]

PAULI_X == [r \in 0..1 |-> [c \in 0..1 |-> IF r = c THEN 0 ELSE One]]

\* utils.is_unitary: square and A A^H = I within the tolerance.
IsUnitary(A) ==
    /\ NRows(A) = NCols(A)
    /\ LET G == MatMul(A, Transpose(A))
       IN \A r, c \in 0..NRows(A)-1 :
             Abs(G[r][c] - (IF r = c THEN One ELSE 0)) <= Tol

\* utils.is_special_unitary, for a 2x2 matrix: unitary with determinant 1.
IsSpecialUnitary(M) ==
    /\ IsUnitary(M)
    /\ Abs(Mul(M[0][0], M[1][1]) - Mul(M[0][1], M[1][0]) - One) <= Tol

RECURSIVE IsPowerOfTwo(_)
\* utils.is_power_of_two
IsPowerOfTwo(x) ==
    IF x < 1 THEN FALSE
    ELSE IF x = 1 THEN TRUE
    ELSE (x % 2) = 0 /\ IsPowerOfTwo(x \div 2)

-----------------------------------------------------------------------------
(* TwoLevelUnitary (two_level_unitary.py) *)

\* Keeps index1 < index2: swapping the indices conjugates the block by PAULI_X.
OrderIndices(u) ==
    IF u.index1 > u.index2
    THEN [u EXCEPT !.index1 = u.index2, !.index2 = u.index1,
                   !.matrix_2x2 = [r \in 0..1 |-> [c \in 0..1 |->
                                      u.matrix_2x2[1 - r][1 - c]]]]
    ELSE u

TwoLevelUnitary(m, n, a, b) ==
    OrderIndices([matrix_2x2 |-> m, matrix_size |-> n, index1 |-> a, index2 |-> b])

\* The identity except at rows/columns index1, index2, where it is matrix_2x2.
GetFullMatrix(u) ==
    LET pos(x) == IF x = u.index1 THEN 0 ELSE 1
        act(x) == x = u.index1 \/ x = u.index2
    IN [r \in 0..u.matrix_size-1 |-> [c \in 0..u.matrix_size-1 |->
          IF act(r) /\ act(c) THEN u.matrix_2x2[pos(r)][pos(c)]
          ELSE IF r = c THEN One ELSE 0]]

\* u.multiply_right(A): A = A @ u.get_full_matrix(), on the two columns.
MultiplyRight(u, A) ==
    [r \in DOMAIN A |-> [c \in DOMAIN A[r] |->
        IF c = u.index1
        THEN Mul(A[r][u.index1], u.matrix_2x2[0][0])
               + Mul(A[r][u.index2], u.matrix_2x2[1][0])
        ELSE IF c = u.index2
        THEN Mul(A[r][u.index1], u.matrix_2x2[0][1])
               + Mul(A[r][u.index2], u.matrix_2x2[1][1])
        ELSE A[r][c]]]

\* u.inv(): the conjugate transpose of the block, on the same indices.
Inv(u) ==
    TwoLevelUnitary(Transpose(u.matrix_2x2), u.matrix_size, u.index1, u.index2)

\* u.apply_permutation(perm)
ApplyPermutation(u, perm) ==
    OrderIndices([u EXCEPT !.index1 = perm[u.index1], !.index2 = perm[u.index2]])

RECURSIVE ProductOf(_, _)
\* u_k * ... * u_2 * u_1 for the list [u_1, ..., u_k] of matrices of dimension n.
ProductOf(us, n) ==
    IF Len(us) = 0 THEN Eye(n)
    ELSE MatMul(GetFullMatrix(us[Len(us)]),
                ProductOf(SubSeq(us, 1, Len(us) - 1), n))

-----------------------------------------------------------------------------
(* The calls the model serves *)

NoGate ==
    [type |-> "none", name |-> "", arg |-> 0,
     qubit_id |-> 0, qubit_count |-> 0, flip_mask |-> 0]
NoReturn == [error |-> "none", kind |-> "none", val |-> 0]
Raised(e) == [error |-> e, kind |-> "none", val |-> 0]

Perms(n) ==
    {p \in [0..n-1 -> 0..n-1] : \A x, y \in 0..n-1 : p[x] = p[y] => x = y}

\* Permutation matrices with entries +1 / -1.
SignedPerms(n) ==
    {[r \in 0..n-1 |-> [c \in 0..n-1 |-> IF p[r] = c THEN s[r] * One ELSE 0]] :
        p \in Perms(n), s \in [0..n-1 -> {-1, 1}]}

\* Rotations by atan(4/3) or atan(3/4) in a coordinate plane (p, q).
Rotations(n) ==
    {[r \in 0..n-1 |-> [c \in 0..n-1 |->
        IF r = pq[1] /\ c = pq[1] THEN cs[1] * Grid
        ELSE IF r = pq[1] /\ c = pq[2] THEN cs[2] * Grid
        ELSE IF r = pq[2] /\ c = pq[1] THEN (-cs[2]) * Grid
        ELSE IF r = pq[2] /\ c = pq[2] THEN cs[1] * Grid
        ELSE IF r = c THEN One ELSE 0]] :
        pq \in {x \in (0..n-1) \X (0..n-1) : x[1] < x[2]},
        cs \in {x \in {-4, -3, 3, 4} \X {-4, -3, 3, 4} : Abs(x[1]) # Abs(x[2])}}

\* The identity with an entry of magnitude exactly 1e-9 at (p, q) and (q, p):
\* unitary within the tolerance.
NearIdentity(n) ==
    {[r \in 0..n-1 |-> [c \in 0..n-1 |->
        IF r = c THEN One
        ELSE IF r = pq[1] /\ c = pq[2] THEN Tol
        ELSE IF r = pq[2] /\ c = pq[1] THEN -Tol
        ELSE 0]] :
        pq \in {x \in (0..n-1) \X (0..n-1) : x[1] # x[2]}}

\* Square matrices that are not unitary: a zero last row; all entries 1 (2x2).
NotUnitary(n) ==
    {[r \in 0..n-1 |-> [c \in 0..n-1 |-> IF r = c /\ r < n - 1 THEN One ELSE 0]]}
      \cup (IF n = 2 THEN {[r \in 0..1 |-> [c \in 0..1 |-> One]]} ELSE {})

\* Matrices that are not square.
NonSquare ==
    {[r \in 0..rc[1]-1 |-> [c \in 0..rc[2]-1 |-> IF r = c THEN One ELSE 0]] :
        rc \in {x \in (2..MaxN) \X (2..MaxN) : x[1] # x[2]}}

\* 8x8 cyclic shifts, with signs.
Shifts8 ==
    {[r \in 0..7 |-> [c \in 0..7 |->
        IF c = (r + k) % 8 THEN (IF Bit(sg, r % 2) = 1 THEN -One ELSE One) ELSE 0]] :
        k \in 0..7, sg \in 0..3}

SquareInputs ==
    UNION {SignedPerms(n) \cup Rotations(n) \cup NearIdentity(n) \cup NotUnitary(n) :
             n \in 2..MaxN}

\* A permutation matrix with entries +1 / -1.
IsSignedPerm(A) ==
    /\ NRows(A) = NCols(A)
    /\ \A r \in DOMAIN A : Cardinality({c \in DOMAIN A[r] : A[r][c] # 0}) = 1
    /\ \A c \in DOMAIN A : Cardinality({r \in DOMAIN A : A[r][c] # 0}) = 1
    /\ \A r \in DOMAIN A : \A c \in DOMAIN A[r] : A[r][c] \in {-One, 0, One}

\* What the Gray-code path is given: of the signed permutation matrices, those
\* of power-of-two dimension (the others are rejected like every other matrix
\* of their dimension).
GrayInputs ==
    {m \in SquareInputs : IsPowerOfTwo(NRows(m)) \/ ~IsSignedPerm(m)} \cup NonSquare

MatrixCalls ==
    {[fn |-> "two_level_decompose", A |-> m, optimize |-> FALSE, gate |-> NoGate] :
        m \in SquareInputs}
    \cup {[fn |-> "two_level_decompose_gray", A |-> m, optimize |-> FALSE,
           gate |-> NoGate] : m \in GrayInputs \cup Shifts8}
    \cup {[fn |-> "matrix_to_gates", A |-> m, optimize |-> o, gate |-> NoGate] :
            m \in GrayInputs, o \in BOOLEAN}

-----------------------------------------------------------------------------
(* two_level_decompose *)

\* The outer loop running one row too far: range(n - 1).
OuterRange_OneRowMore(n) == 0..(n - 2)

\* range(n - 2): the rows the outer loop visits.
OuterRange(n) == 0..(n - 3)

\* Which branch the loop body takes for a pivot of magnitude a = |A[i, j-1]|
\* and a target of magnitude b = |A[i, j]|.
Branch(a, b) ==
    IF b < Tol THEN "skip"
    ELSE IF a < Tol THEN "swap"
    ELSE "eliminate"

\* The first assertion of make_eliminating_matrix.
ElimPrecondition(a, b) == Abs(a) > Tol /\ Abs(b) > Tol

\* make_eliminating_matrix(a, b), once its first assertion has passed: the
\* matrix built and whether the three assertions on it pass.
MakeEliminatingMatrix(a, b) ==
    LET c == Hypot(a, b)
        cos_theta == FDiv(Abs(a), c)         \* theta = arctan(|b / a|)
        sin_theta == FDiv(Abs(b), c)
        e_lmbda == Sgn(a)                    \* exp(1j * lmbda), lmbda = -angle(a)
        \* exp(1j * mu), mu = pi + angle(b) - angle(a) - lmbda
        e_mu == (-1) * Sgn(b) * Sgn(a) * e_lmbda
        m == [r \in 0..1 |-> [k \in 0..1 |->
                IF r = 0 /\ k = 0 THEN cos_theta * e_lmbda
                ELSE IF r = 0 /\ k = 1 THEN sin_theta * e_mu
                ELSE IF r = 1 /\ k = 0 THEN (-sin_theta) * e_mu
                ELSE cos_theta * e_lmbda]]
    IN [result |-> m,
        asserts |-> /\ IsSpecialUnitary(m)
                    /\ Mul(m[0][0], a) + Mul(m[1][0], b) > 0
                    /\ Abs(Mul(m[0][1], a) + Mul(m[1][1], b)) < Tol]

Pivot == current_A[i][j - 1]
Target == current_A[i][j]
Dim == NRows(arg)

\* The loop indices after iteration (i, j); the loops are over once no row is left.
Advance ==
    IF j - 1 > i
    THEN pc' = "loop" /\ i' = i /\ j' = j - 1
    ELSE IF (i + 1) \in OuterRange(Dim)
    THEN pc' = "loop" /\ i' = i + 1 /\ j' = Dim - 1
    ELSE pc' = "final" /\ i' = i /\ j' = j

\* assert is_unitary(A) fails.
TldReject ==
    /\ pc = "two_level_decompose"
    /\ ~IsUnitary(arg)
    /\ pc' = "done"
    /\ ret' = Raised("AssertionError")
    /\ UNCHANGED <<call, arg, current_A, i, j, result, inner, gates>>

\* assert is_unitary(A) passes; result = [], current_A = np.array(A).
TldEnter ==
    /\ pc = "two_level_decompose"
    /\ IsUnitary(arg)
    /\ result' = << >>
    /\ current_A' = arg
    /\ IF OuterRange(Dim) # {}
       THEN pc' = "loop" /\ i' = 0 /\ j' = Dim - 1
       ELSE pc' = "final" /\ i' = 0 /\ j' = 0
    /\ UNCHANGED <<call, arg, inner, gates, ret>>

\* Element is already zero, skipping.
LoopSkip ==
    /\ pc = "loop"
    /\ Branch(Abs(Pivot), Abs(Target)) = "skip"
    /\ Advance
    /\ UNCHANGED <<call, arg, current_A, result, inner, gates, ret>>

\* Just swap columns.
LoopSwap ==
    /\ pc = "loop"
    /\ Branch(Abs(Pivot), Abs(Target)) = "swap"
    /\ LET u_2x2 == TwoLevelUnitary(PAULI_X, Dim, j - 1, j)
       IN /\ current_A' = MultiplyRight(u_2x2, current_A)
          /\ result' = Append(result, Inv(u_2x2))
    /\ Advance
    /\ UNCHANGED <<call, arg, inner, gates, ret>>

\* make_eliminating_matrix returns; the columns are combined.
LoopEliminate ==
    /\ pc = "loop"
    /\ Branch(Abs(Pivot), Abs(Target)) = "eliminate"
    /\ ElimPrecondition(Pivot, Target)
    /\ MakeEliminatingMatrix(Pivot, Target).asserts
    /\ LET u_2x2 == TwoLevelUnitary(MakeEliminatingMatrix(Pivot, Target).result,
                                    Dim, j - 1, j)
       IN /\ current_A' = MultiplyRight(u_2x2, current_A)
          /\ result' = Append(result, Inv(u_2x2))
    /\ Advance
    /\ UNCHANGED <<call, arg, inner, gates, ret>>

\* An assertion of make_eliminating_matrix fails.
LoopAssertFail ==
    /\ pc = "loop"
    /\ Branch(Abs(Pivot), Abs(Target)) = "eliminate"
    /\ IF ElimPrecondition(Pivot, Target)
       THEN ~MakeEliminatingMatrix(Pivot, Target).asserts
       ELSE TRUE
    /\ pc' = "done"
    /\ ret' = Raised("AssertionError")
    /\ UNCHANGED <<call, arg, current_A, i, j, result, inner, gates>>

\* The last 2x2 block is appended and the list returned.
TldFinal ==
    /\ pc = "final"
    /\ LET n == Dim
           block == [r \in 0..1 |-> [c \in 0..1 |-> current_A[n - 2 + r][n - 2 + c]]]
           res == Append(result, TwoLevelUnitary(block, n, n - 2, n - 1))
       IN /\ result' = res
          /\ IF call.fn = "two_level_decompose"
             THEN pc' = "done" /\ ret' = [error |-> "none", kind |-> "list", val |-> 0]
             ELSE pc' = "relabel" /\ ret' = ret
    /\ UNCHANGED <<call, arg, current_A, i, j, inner, gates>>

-----------------------------------------------------------------------------
(* two_level_decompose_gray *)

\* A shift by two bits instead of one: x ^ (x // 4).
GrayPerm_ShiftTwo(N) == [x \in 0..N-1 |-> Xor(x, x \div 4)]

\* perm = [x ^ (x // 2) for x in range(N)]
GrayPerm(N) == [x \in 0..N-1 |-> Xor(x, x \div 2)]

\* The transposed matrix: P[perm[i]][i] = 1.
PermMatrix_Transposed(perm) ==
    [r \in DOMAIN perm |-> [c \in DOMAIN perm |-> IF r = perm[c] THEN One ELSE 0]]

\* P[i][perm[i]] = 1
PermMatrix(perm) ==
    [r \in DOMAIN perm |-> [c \in DOMAIN perm |-> IF c = perm[r] THEN One ELSE 0]]

\* The three assertions of two_level_decompose_gray, in their order.
GrayAsserts(A) ==
    /\ IsPowerOfTwo(NRows(A))
    /\ NRows(A) = NCols(A)
    /\ IsUnitary(A)

\* One of the assertions fails.
GrayReject ==
    /\ pc = "two_level_decompose_gray"
    /\ ~GrayAsserts(call.A)
    /\ pc' = "done"
    /\ ret' = Raised("AssertionError")
    /\ UNCHANGED <<call, arg, current_A, i, j, result, inner, gates>>

\* The assertions pass: two_level_decompose(P @ A @ P.T) is called.
GrayPermute ==
    /\ pc = "two_level_decompose_gray"
    /\ GrayAsserts(call.A)
    /\ LET P == PermMatrix(GrayPerm(NRows(call.A)))
       IN arg' = MatMul(MatMul(P, call.A), Transpose(P))
    /\ pc' = "two_level_decompose"
    /\ UNCHANGED <<call, current_A, i, j, result, inner, gates, ret>>

\* for matrix in result: matrix.apply_permutation(perm); return result
Relabel ==
    /\ pc = "relabel"
    /\ inner' = result
    /\ result' = [k \in 1..Len(result) |->
                     ApplyPermutation(result[k], GrayPerm(Dim))]
    /\ IF call.fn = "two_level_decompose_gray"
       THEN pc' = "done" /\ ret' = [error |-> "none", kind |-> "list", val |-> 0]
       ELSE pc' = "synthesize" /\ ret' = ret
    /\ UNCHANGED <<call, arg, current_A, i, j, gates>>

-----------------------------------------------------------------------------
(* matrix_to_gates *)

\* The bit in which the two indices of u differ (the lowest one).
TargetBit(u) ==
    CHOOSE b \in 0..u.matrix_size :
        /\ Bit(u.index1, b) # Bit(u.index2, b)
        /\ \A k \in 0..b-1 : Bit(u.index1, k) = Bit(u.index2, k)

RECURSIVE Log2(_)
Log2(n) == IF n <= 1 THEN 0 ELSE 1 + Log2(n \div 2)

\* The complement of the control pattern shared by i1 and i2, on the N - 1
\* bits other than the target bit b.
FlipMaskFor(i1, b, N) ==
    SumTo([k \in 0..N-1 |-> IF k # b /\ Bit(i1, k) = 0 THEN 2 ^ k ELSE 0], N)

\* TwoLevelUnitary.to_fc_gates: one fully controlled gate (a single-qubit gate
\* on one qubit), its Gate2 standing for the 2x2 block.
ToFcGates(u) ==
    LET N == Log2(u.matrix_size)
        b == TargetBit(u)
    IN << [type |-> IF N = 1 THEN "GateSingle" ELSE "GateFC",
           gate2 |-> u.matrix_2x2,
           qubit_id |-> b,
           qubit_count |-> N,
           flip_mask |-> FlipMaskFor(u.index1, b, N)] >>

RECURSIVE Flatten(_)
\* sum(lists, [])
Flatten(ls) == IF Len(ls) = 0 THEN << >> ELSE Head(ls) \o Flatten(Tail(ls))

\* optimize_gates: gates whose Gate2 is the identity are dropped.
OptimizeGates(gs) == SelectSeq(gs, LAMBDA g : g.gate2 # Eye(2))

\* 'optimize' is set and A.shape[0] == 4: decompose_4x4_optimal(A) is called.
MatrixToGatesOptimal ==
    /\ pc = "matrix_to_gates"
    /\ call.optimize /\ NRows(call.A) = 4
    /\ pc' = "decompose_4x4_optimal"
    /\ UNCHANGED <<call, arg, current_A, i, j, result, inner, gates, ret>>

\* Otherwise two_level_decompose_gray(A) is called.
MatrixToGatesGeneral ==
    /\ pc = "matrix_to_gates"
    /\ ~(call.optimize /\ NRows(call.A) = 4)
    /\ pc' = "two_level_decompose_gray"
    /\ UNCHANGED <<call, arg, current_A, i, j, result, inner, gates, ret>>

\* decompose_4x4_optimal: the closed-form producer of a gate sequence; its
\* gates are not modelled.
Decompose4x4Optimal ==
    /\ pc = "decompose_4x4_optimal"
    /\ pc' = "done"
    /\ ret' = [error |-> "none", kind |-> "gates_4x4", val |-> 0]
    /\ UNCHANGED <<call, arg, current_A, i, j, result, inner, gates>>

\* gates = optimize_gates(sum([m.to_fc_gates() for m in matrices], []))
Synthesize ==
    /\ pc = "synthesize"
    /\ gates' = OptimizeGates(Flatten([k \in 1..Len(result) |-> ToFcGates(result[k])]))
    /\ pc' = "done"
    /\ ret' = [error |-> "none", kind |-> "gates", val |-> 0]
    /\ UNCHANGED <<call, arg, current_A, i, j, result, inner>>

-----------------------------------------------------------------------------
(* Gates (gate.py) and the per-gate step of the renderers *)

\* Gate2 kinds: the five of the library and one it does not know.
Names == {"X", "Rx", "Ry", "Rz", "R1", "H"}
\* Gate2 angles (the renderers only copy or negate them).
Args == {1, -2}

\* What gate2.to_matrix() may return: the 2x2 matrices with entries -1, 0, 1.
Mats2 == [0..1 -> [0..1 -> {-One, 0, One}]]

\* flip_mask has no bit at the target.
FlipMasks(N, q) == {f \in 0..(2 ^ N - 1) : Bit(f, q) = 0}

\* (qubit_id, qubit_count) with qubit_id in [0, qubit_count)
QubitPlaces == {x \in (0..MaxQubits-1) \X (1..MaxQubits) : x[1] < x[2]}

GateSingles(names, args) ==
    {[type |-> "GateSingle", name |-> nm, arg |-> a,
      qubit_id |-> qn[1], qubit_count |-> qn[2], flip_mask |-> 0] :
        nm \in names, a \in args, qn \in QubitPlaces}

GateFCs(names, args) ==
    UNION {{[type |-> "GateFC", name |-> nm, arg |-> a,
             qubit_id |-> qn[1], qubit_count |-> qn[2], flip_mask |-> f] :
               nm \in names, a \in args, f \in FlipMasks(qn[2], qn[1])} :
            qn \in QubitPlaces}

GateCall(fn, g) == [fn |-> fn, A |-> NoMatrix, optimize |-> FALSE, gate |-> g]

GateCalls ==
    {GateCall("GateSingle.to_matrix", g) : g \in GateSingles({"R1"}, {1})}
    \cup {GateCall("GateFC.to_matrix", g) : g \in GateFCs({"R1"}, {1})}
    \cup {GateCall("GateSingle.to_qsharp_command", g) : g \in GateSingles(Names, Args)}
    \cup {GateCall("GateFC.to_qsharp_command", g) : g \in GateFCs(Names, Args)}
    \cup {GateCall(fn, g) :
            fn \in {"matrix_to_cirq_circuit", "matrix_to_qiskit_circuit"},
            g \in GateSingles(Names, Args) \cup GateFCs(Names, Args)}

\* The tile filled with matrix[j, i] instead of matrix[i, j].
GateSingle_to_matrix_SwappedBlocks(gate, g) ==
    LET tile_size == 2 ^ (gate.qubit_id + 1)
        half == tile_size \div 2
        subtile == Eye(half)
        tile == IF gate.qubit_id = 0 THEN g
                ELSE [r \in 0..tile_size-1 |-> [c \in 0..tile_size-1 |->
                        Mul(subtile[r % half][c % half], g[c \div half][r \div half])]]
        matrix_size == 2 ^ gate.qubit_count
    IN [r \in 0..matrix_size-1 |-> [c \in 0..matrix_size-1 |->
          IF r \div tile_size = c \div tile_size
          THEN tile[r % tile_size][c % tile_size]
          ELSE 0]]

\* GateSingle.to_matrix, g being gate2.to_matrix().
GateSingle_to_matrix(gate, g) ==
    LET tile_size == 2 ^ (gate.qubit_id + 1)
        half == tile_size \div 2
        subtile == Eye(half)
        tile == IF gate.qubit_id = 0 THEN g
                ELSE [r \in 0..tile_size-1 |-> [c \in 0..tile_size-1 |->
                        Mul(subtile[r % half][c % half], g[r \div half][c \div half])]]
        matrix_size == 2 ^ gate.qubit_count
    IN [r \in 0..matrix_size-1 |-> [c \in 0..matrix_size-1 |->
          IF r \div tile_size = c \div tile_size
          THEN tile[r % tile_size][c % tile_size]
          ELSE 0]]

\* index1 computed with 2 * qubit_id instead of 2 ** qubit_id.
GateFC_to_matrix_TimesTwo(gate, g) ==
    LET matrix_size == 2 ^ gate.qubit_count
        index2 == (matrix_size - 1) - gate.flip_mask
        index1 == index2 - 2 * gate.qubit_id
    IN [index1 |-> index1, index2 |-> index2,
        matrix |-> GetFullMatrix(TwoLevelUnitary(g, matrix_size, index1, index2))]

\* GateFC.to_matrix, g being gate2.to_matrix(): the two indices and the matrix.
GateFC_to_matrix(gate, g) ==
    LET matrix_size == 2 ^ gate.qubit_count
        index2 == (matrix_size - 1) - gate.flip_mask
        index1 == index2 - 2 ^ gate.qubit_id
    IN [index1 |-> index1, index2 |-> index2,
        matrix |-> GetFullMatrix(TwoLevelUnitary(g, matrix_size, index1, index2))]

Returned(kind, val) == [error |-> "none", kind |-> kind, val |-> val]

\* The single-qubit command text, as its parts; None when no branch matches.
GateSingle_to_qsharp_command(gate) ==
    IF gate.name \in {"Rx", "Ry", "Rz"}
    THEN Returned("command", [op |-> gate.name, controls |-> << >>,
                              angle |-> << -gate.arg >>, qubit |-> gate.qubit_id])
    ELSE IF gate.name = "R1"
    THEN Returned("command", [op |-> "R1", controls |-> << >>,
                              angle |-> << gate.arg >>, qubit |-> gate.qubit_id])
    ELSE IF gate.name = "X"
    THEN Returned("command", [op |-> "X", controls |-> << >>,
                              angle |-> << >>, qubit |-> gate.qubit_id])
    ELSE Returned("None", 0)

\* [x for x in range(n) if x != q], in order.
OthersInOrder(n, q) ==
    [k \in 1..(n - 1) |-> IF k - 1 < q THEN k - 1 ELSE k]

GateFC_to_qsharp_command(gate) ==
    IF gate.qubit_count = 1
    THEN GateSingle_to_qsharp_command(
            [gate EXCEPT !.type = "GateSingle", !.qubit_count = 1, !.flip_mask = 0])
    ELSE IF gate.flip_mask # 0
    THEN Raised("ValueError")
    ELSE LET controls == OthersInOrder(gate.qubit_count, gate.qubit_id)
         IN IF gate.name \in {"Rx", "Ry", "Rz"}
            THEN Returned("command", [op |-> "Controlled " \o gate.name,
                                      controls |-> controls,
                                      angle |-> << -gate.arg >>,
                                      qubit |-> gate.qubit_id])
            ELSE IF gate.name = "R1"
            THEN Returned("command", [op |-> "Controlled R1", controls |-> controls,
                                      angle |-> << gate.arg >>,
                                      qubit |-> gate.qubit_id])
            ELSE IF gate.name = "X"
            THEN Returned("command", [op |-> "Controlled X", controls |-> controls,
                                      angle |-> << >>, qubit |-> gate.qubit_id])
            ELSE Returned("None", 0)

\* gate_to_cirq: the cirq gate, or RuntimeError.
gate_to_cirq(gate) ==
    IF gate.name = "X" THEN [ok |-> TRUE, gate |-> "cirq.X", param |-> << >>]
    ELSE IF gate.name = "Ry" THEN [ok |-> TRUE, gate |-> "cirq.ry", param |-> << -gate.arg >>]
    ELSE IF gate.name = "Rz" THEN [ok |-> TRUE, gate |-> "cirq.rz", param |-> << -gate.arg >>]
    \* exponent = arg / pi: the parameter is kept in units of 1/pi
    ELSE IF gate.name = "R1" THEN [ok |-> TRUE, gate |-> "cirq.ZPowGate", param |-> << gate.arg >>]
    ELSE [ok |-> FALSE, gate |-> "", param |-> << >>]

\* gate_to_qiskit: the qiskit gate, or RuntimeError.
gate_to_qiskit(gate) ==
    IF gate.name = "X" THEN [ok |-> TRUE, gate |-> "XGate", param |-> << >>]
    ELSE IF gate.name = "Ry" THEN [ok |-> TRUE, gate |-> "RYGate", param |-> << -gate.arg >>]
    ELSE IF gate.name = "Rz" THEN [ok |-> TRUE, gate |-> "RZGate", param |-> << -gate.arg >>]
    ELSE IF gate.name = "R1" THEN [ok |-> TRUE, gate |-> "U1Gate", param |-> << gate.arg >>]
    ELSE [ok |-> FALSE, gate |-> "", param |-> << >>]

\* The operation appended for one gate: the library gate, the index bits of the
\* qubits it is put on (controls first, target last) and the value each control
\* must have.  Neither ControlledGate(num_controls=...) nor .control(...) is
\* given control values, so every control is active-high.
\* cirq: qubits = LineQubit.range(n)[::-1], and LineQubit(x) is index bit n-1-x.
RenderCirq(gate) ==
    LET n == gate.qubit_count
        line_qubit(k) == n - 1 - k               \* qubits[k]
        bit_of(x) == n - 1 - x
        g2 == gate_to_cirq(gate)
        controls == [k \in 1..(n - 1) |->
                        bit_of(line_qubit(OthersInOrder(n, gate.qubit_id)[k]))]
        target == bit_of(line_qubit(gate.qubit_id))
    IN IF ~g2.ok THEN Raised("RuntimeError")
       ELSE IF gate.type = "GateFC"
       THEN Returned("op", [gate |-> g2, bits |-> controls \o << target >>,
                            num_controls |-> n - 1,
                            control_values |-> [k \in 1..(n - 1) |-> 1]])
       ELSE IF gate.type = "GateSingle"
       THEN Returned("op", [gate |-> g2, bits |-> << target >>,
                            num_controls |-> 0, control_values |-> << >>])
       ELSE Raised("RuntimeError")

\* qiskit: qubits = circuit.qubits, and qubits[k] is index bit k.
RenderQiskit(gate) ==
    LET n == gate.qubit_count
        g2 == gate_to_qiskit(gate)
        controls == OthersInOrder(n, gate.qubit_id)
        target == gate.qubit_id
    IN IF ~g2.ok THEN Raised("RuntimeError")
       ELSE IF gate.type = "GateFC"
       THEN Returned("op", [gate |-> g2, bits |-> controls \o << target >>,
                            num_controls |-> Len(controls),
                            control_values |-> [k \in 1..Len(controls) |-> 1]])
       ELSE IF gate.type = "GateSingle"
       THEN Returned("op", [gate |-> g2, bits |-> << target >>,
                            num_controls |-> 0, control_values |-> << >>])
       ELSE Raised("RuntimeError")

GateSingleToMatrix ==
    /\ pc = "GateSingle.to_matrix"
    /\ \E g \in Mats2 :
          ret' = Returned("matrix", [g |-> g, index1 |-> 0, index2 |-> 0,
                                     matrix |-> GateSingle_to_matrix(call.gate, g)])
    /\ pc' = "done"
    /\ UNCHANGED <<call, arg, current_A, i, j, result, inner, gates>>

GateFCToMatrix ==
    /\ pc = "GateFC.to_matrix"
    /\ \E g \in Mats2 :
          LET m == GateFC_to_matrix(call.gate, g)
          IN ret' = Returned("matrix", [g |-> g, index1 |-> m.index1,
                                        index2 |-> m.index2, matrix |-> m.matrix])
    /\ pc' = "done"
    /\ UNCHANGED <<call, arg, current_A, i, j, result, inner, gates>>

GateSingleToQsharp ==
    /\ pc = "GateSingle.to_qsharp_command"
    /\ ret' = GateSingle_to_qsharp_command(call.gate)
    /\ pc' = "done"
    /\ UNCHANGED <<call, arg, current_A, i, j, result, inner, gates>>

GateFCToQsharp ==
    /\ pc = "GateFC.to_qsharp_command"
    /\ ret' = GateFC_to_qsharp_command(call.gate)
    /\ pc' = "done"
    /\ UNCHANGED <<call, arg, current_A, i, j, result, inner, gates>>

\* One turn of the loop `for gate in gates` of matrix_to_cirq_circuit.
CirqAppend ==
    /\ pc = "matrix_to_cirq_circuit"
    /\ ret' = RenderCirq(call.gate)
    /\ pc' = "done"
    /\ UNCHANGED <<call, arg, current_A, i, j, result, inner, gates>>

\* One turn of the loop `for gate in gates` of matrix_to_qiskit_circuit.
QiskitAppend ==
    /\ pc = "matrix_to_qiskit_circuit"
    /\ ret' = RenderQiskit(call.gate)
    /\ pc' = "done"
    /\ UNCHANGED <<call, arg, current_A, i, j, result, inner, gates>>

-----------------------------------------------------------------------------

Init ==
    /\ call \in MatrixCalls \cup GateCalls
    /\ pc = call.fn
    /\ arg = IF call.fn = "two_level_decompose" THEN call.A ELSE NoMatrix
    /\ current_A = NoMatrix
    /\ i = 0
    /\ j = 0
    /\ result = << >>
    /\ inner = << >>
    /\ gates = << >>
    /\ ret = NoReturn

Next ==
    \/ TldReject
    \/ TldEnter
    \/ LoopSkip
    \/ LoopSwap
    \/ LoopEliminate
    \/ LoopAssertFail
    \/ TldFinal
    \/ GrayReject
    \/ GrayPermute
    \/ Relabel
    \/ MatrixToGatesOptimal
    \/ MatrixToGatesGeneral
    \/ Decompose4x4Optimal
    \/ Synthesize
    \/ GateSingleToMatrix
    \/ GateFCToMatrix
    \/ GateSingleToQsharp
    \/ GateFCToQsharp
    \/ CirqAppend
    \/ QiskitAppend

Spec == Init /\ [][Next]_vars

-----------------------------------------------------------------------------
(* Properties *)

Ok == pc = "done" /\ ret.error = "none"

\* two_level_decompose has returned its list.
TldReturned == Ok /\ call.fn = "two_level_decompose"

\* two_level_decompose_gray has returned its list (to its caller, if any).
GrayReturned ==
    \/ pc = "synthesize"
    \/ Ok /\ call.fn = "two_level_decompose_gray"
    \/ Ok /\ call.fn = "matrix_to_gates" /\ ret.kind = "gates"

\* C1: for every signed permutation matrix A, the factors two_level_decompose
\* returns, multiplied in application order (u_k * ... * u_1), give A.
C1_ProductIsA ==
    (TldReturned /\ IsSignedPerm(call.A)) => ProductOf(result, Dim) = call.A

\* C2: every factor two_level_decompose_gray returns acts on two indices whose
\* XOR is a power of two; every factor of the inner decomposition acts on two
\* adjacent indices.
C2_SingleBit ==
    GrayReturned =>
        /\ \A k \in 1..Len(inner) : inner[k].index2 = inner[k].index1 + 1
        /\ \A k \in 1..Len(result) :
              IsPowerOfTwo(Xor(result[k].index1, result[k].index2))

\* A returned factor whose two indices are not adjacent (dimension 8).
C2_Witness ==
    /\ GrayReturned /\ Dim = 8
    /\ \E k \in 1..Len(result) : result[k].index2 - result[k].index1 > 2

RenderedPair(op) ==
    LET target == op.bits[Len(op.bits)]
        base == SumTo([k \in 0..op.num_controls-1 |->
                          op.control_values[k + 1] * 2 ^ op.bits[k + 1]],
                      op.num_controls)
    IN << base, base + 2 ^ target >>

Recognized(fn) ==
    IF fn \in {"GateSingle.to_qsharp_command", "GateFC.to_qsharp_command"}
    THEN {"Rx", "Ry", "Rz", "R1", "X"}
    ELSE {"X", "Ry", "Rz", "R1"}

\* C5: rendering a gate whose Gate2 kind the renderer does not recognize ends
\* in an error, never in a returned value.
C5_UnknownKindIsFatal ==
    (pc = "done"
        /\ call.fn \in {"GateSingle.to_qsharp_command", "GateFC.to_qsharp_command",
                        "matrix_to_cirq_circuit", "matrix_to_qiskit_circuit"}
        /\ call.gate.name \notin Recognized(call.fn)) =>
        ret.error # "none"

\* The pairs (r, c) the loops have been through before iteration (i, j).
PairsBefore(n, r, c) ==
    SumTo([k \in 0..r-1 |-> n - 1 - k], r) + (n - 1 - c)

\* C6: two_level_decompose appends at most one factor per pair (i, j) and one
\* final factor on (n-2, n-1): at most n(n-1)/2 factors in all.
C6_FactorBound ==
    /\ pc = "loop" => Len(result) <= PairsBefore(Dim, i, j)
    /\ pc = "final" => Len(result) <= (Dim * (Dim - 1)) \div 2 - 1
    /\ (TldReturned \/ pc = "relabel") =>
          /\ Len(result) <= (Dim * (Dim - 1)) \div 2
          /\ Len(result) >= 1
          /\ result[Len(result)].index1 = Dim - 2
          /\ result[Len(result)].index2 = Dim - 1

\* The bound is attained in dimension 4.
C6_Witness == TldReturned /\ Dim = 4 /\ Len(result) = 6

\* r and c agree on every bit other than q.
AgreeOffBit(r, c, q, N) == \A k \in (0..N-1) \ {q} : Bit(r, k) = Bit(c, k)

\* C7: GateSingle.to_matrix is the 2^N x 2^N matrix whose entry (r, c) is
\* g[bit qubit_id of r][bit qubit_id of c] when r and c agree on every other
\* bit, and 0 otherwise.
C7_TensorProduct ==
    (Ok /\ call.fn = "GateSingle.to_matrix") =>
        LET g == ret.val.g
            q == call.gate.qubit_id
            N == call.gate.qubit_count
            M == ret.val.matrix
        IN /\ DOMAIN M = 0..(2 ^ N - 1)
           /\ \A r \in DOMAIN M :
                 /\ DOMAIN M[r] = 0..(2 ^ N - 1)
                 /\ \A c \in DOMAIN M[r] :
                       M[r][c] = IF AgreeOffBit(r, c, q, N)
                                 THEN g[Bit(r, q)][Bit(c, q)]
                                 ELSE 0

\* A matrix that is not symmetric, on the middle qubit of three.
C7_Witness ==
    /\ Ok /\ call.fn = "GateSingle.to_matrix"
    /\ call.gate.qubit_count = 3 /\ call.gate.qubit_id = 1
    /\ ret.val.g[0][1] = One /\ ret.val.g[1][0] = -One
    /\ ret.val.matrix[5][7] = One

\* C8: whenever the loop body calls make_eliminating_matrix, the magnitudes of
\* the pivot and of the target are both strictly above 1e-9 (its first
\* assertion holds).
C8_PreconditionHolds ==
    (pc = "loop" /\ Branch(Abs(Pivot), Abs(Target)) = "eliminate") =>
        ElimPrecondition(Pivot, Target)

\* C9: perm is a bijection on 0..N-1; every relabelled factor is P^T * U * P for
\* the factor U it comes from; and the relabelled factors multiply to A whenever
\* the factors of the inner decomposition multiply to P * A * P^T.
C9_RelabelUndoesConjugation ==
    GrayReturned =>
        LET N == NRows(call.A)
            perm == GrayPerm(N)
            P == PermMatrix(perm)
        IN /\ {perm[x] : x \in 0..N-1} = 0..N-1
           /\ Len(result) = Len(inner)
           /\ \A k \in 1..Len(result) :
                 GetFullMatrix(result[k])
                    = MatMul(MatMul(Transpose(P), GetFullMatrix(inner[k])), P)
           /\ ProductOf(inner, N) = MatMul(MatMul(P, call.A), Transpose(P))
                 => ProductOf(result, N) = call.A

\* Dimension 8, a factor whose indices the relabelling moved, and an inner
\* decomposition that does multiply to P * A * P^T.
C9_Witness ==
    /\ GrayReturned /\ Dim = 8
    /\ \E k \in 1..Len(result) : result[k].index1 # inner[k].index1
    /\ Len(result) > 8
    /\ ProductOf(inner, Dim) = arg

\* i1 < i2 differ in bit b only.
DifferOnlyInBit(i1, i2, b) == i2 = i1 + 2 ^ b /\ Bit(i1, b) = 0

\* C10: for every pair i1 < i2 differing only in bit b, the GateFC with target b
\* and the flip-mask synthesis gives that pair has to_matrix act on exactly
\* index1 = i1 and index2 = i2: the matrix is g on rows/columns i1, i2 and the
\* identity elsewhere, and 0 <= index1 < index2 < 2^N.
C10_IndexRoundTrip ==
    (Ok /\ call.fn = "GateFC.to_matrix") =>
        LET g == call.gate
            N == g.qubit_count
            M == ret.val.matrix
            blk == ret.val.g
        IN /\ 0 <= ret.val.index1 /\ ret.val.index1 < ret.val.index2
           /\ ret.val.index2 < 2 ^ N
           /\ \E i1 \in 0..(2 ^ N - 1) :
                 DifferOnlyInBit(i1, i1 + 2 ^ g.qubit_id, g.qubit_id)
                    /\ FlipMaskFor(i1, g.qubit_id, N) = g.flip_mask
           /\ \A i1, i2 \in 0..(2 ^ N - 1) :
                 (DifferOnlyInBit(i1, i2, g.qubit_id)
                    /\ FlipMaskFor(i1, g.qubit_id, N) = g.flip_mask) =>
                    /\ ret.val.index1 = i1 /\ ret.val.index2 = i2
                    /\ \A r, c \in 0..(2 ^ N - 1) :
                          M[r][c] = IF r \in {i1, i2} /\ c \in {i1, i2}
                                    THEN blk[IF r = i1 THEN 0 ELSE 1]
                                            [IF c = i1 THEN 0 ELSE 1]
                                    ELSE IF r = c THEN One ELSE 0

\* Three qubits, target 0, the pair (2, 3), a matrix that is not symmetric.
C10_Witness ==
    /\ Ok /\ call.fn = "GateFC.to_matrix"
    /\ call.gate.qubit_count = 3 /\ call.gate.qubit_id = 0
    /\ call.gate.flip_mask = 4
    /\ ret.val.index1 = 2 /\ ret.val.index2 = 3
    /\ ret.val.g[0][1] = One /\ ret.val.g[1][0] = 0
    /\ ret.val.matrix[2][3] = One

====
